---- MODULE Spec2Model ----
(***************************************************************************)
(* State-machine model of USpudSubsystem (Source/SPUD/Private/             *)
(* SpudSubsystem.cpp): the save/load orchestrator, the per-level           *)
(* persistence coordinator and the destroyed-actor tracker.                *)
(*                                                                         *)
(* Every handler of the subsystem is a pure operator from a state record   *)
(* to a state record, composed the way the C++ calls compose; an action    *)
(* runs one handler to completion on the game thread.  Broadcasts and      *)
(* calls into collaborators made by the handler are appended to `events`,  *)
(* each tagged with the CurrentState a listener would observe.             *)
(***************************************************************************)
EXTENDS Integers, Sequences, FiniteSets, TLC

\* ---------------------------------------------------------------- bounds
\* OnScreenshotCaptured delegates that may be bound to the viewport at once
MaxBindings == 1
\* deferred game-thread restore tasks that may be queued per level at once
MaxPendingTasks == 1

\* ---------------------------------------------------------------- universe
PersistentLevel == "A"
StreamingLevels == {"B"}
Zones == {PersistentLevel} \cup StreamingLevels
\* World->GetLevels() in iteration order
LevelOrder == <<"A", "B">>
\* authored (level-placed) persistent actors of each level
Entities == {"E1"}
\* slot names a caller may pass; "" is the blank FString
SlotNames == {"", "S1"}
NoTitle == ""
Titles == {"T1"}
\* the `const FString& SlotName` argument that aliases the member SlotNameInProgress
RefSlotNameInProgress == "&SlotNameInProgress"

VARIABLES
    CurrentState,         \* ESpudSystemState
    bIsRestoringState,
    SlotNameInProgress,
    TitleInProgress,
    ExtraInfoInProgress,  \* TRUE iff a USpudCustomSaveInfo pointer is held
    OnScreenshotHandle,   \* TRUE iff the FDelegateHandle is valid
    ScreenshotBindings,   \* OnScreenshotCaptured bindings on the viewport delegate
    ActiveState,          \* USpudState: level name -> level record
    Storage,              \* save game files: slot name -> file
    Levels,               \* World->GetLevels(): the resident levels
    Actors,               \* level -> live authored persistent actors
    Subscribed,           \* level -> actor -> number of entries of the actor's
                          \* OnDestroyed invocation list that call OnActorDestroyed
    LevelStreamingRestoreStates, \* level -> flag; a missing TMap entry reads as false
    PendingTasks,         \* level -> AsyncTask(GameThread) lambdas queued by HandleLevelLoaded
    bMapLoading,          \* between PreLoadMap and PostLoadMapWithWorld
    bIsTearingDown,       \* set by Deinitialize, which also removes the engine
                          \* delegates: no handler runs while it is set
    lastOp,               \* the handler the last step ran, with its arguments
    scenario,             \* progress through the destroy-save-end-load scenario
    bUnrestoredGlobals,   \* the container holds level data read from a slot whose
                          \* global objects were not restored from it
    events                \* broadcasts / collaborator calls of the last step

vars == <<CurrentState, bIsRestoringState, SlotNameInProgress, TitleInProgress,
          ExtraInfoInProgress, OnScreenshotHandle, ScreenshotBindings, ActiveState,
          Storage, Levels, Actors, Subscribed, LevelStreamingRestoreStates,
          PendingTasks, bMapLoading, bIsTearingDown, lastOp, scenario,
          bUnrestoredGlobals, events>>

SystemStates == {"Disabled", "RunningIdle", "SavingGame", "LoadingGame", "NewGameOnNextLevel"}

\* ---------------------------------------------------------------- USpudState
NoLevelData == [present |-> FALSE, destroyed |-> {}]
EmptyState == [z \in Zones |-> NoLevelData]
NoFile == [status |-> "missing", levels |-> EmptyState]
\* a save file made in another map: it reads without error and holds no record
\* for any level of this world
ForeignFile == [status |-> "ok", levels |-> EmptyState]

\* USpudState::ResetState: drops global data and every level record
ResetState(state) == EmptyState

\* USpudState::StoreLevel: write the level's live actors into its record
\* (created on first store); the destroyed-actor list of the record is kept
StateStoreLevel(state, z, bRelease) ==
    [state EXCEPT ![z] = [present |-> TRUE, destroyed |-> state[z].destroyed]]

\* USpudState::ReleaseLevelData: the record's memory is paged out; what the
\* container holds for the level (data present, destroyed list) is retained
ReleaseLevelData(state, z) == state

\* USpudState::StoreLevelActorDestroyed: append to the level's destroyed list
StoreLevelActorDestroyed(state, z, e) ==
    [state EXCEPT ![z] = [present |-> TRUE, destroyed |-> state[z].destroyed \cup {e}]]

\* USpudState::CanRestoreLevel / CanRestoreWorld
StateCanRestoreLevel(state, z) == state[z].present
StateCanRestoreWorld(state) == state[PersistentLevel].present

\* USpudState::SaveToArchive: the bytes written for the container
SaveToArchive(state) ==
    [status |-> "ok", levels |-> state]

\* USpudState::LoadFromArchive(Archive, false): global data only, level data paged
LoadFromArchive(file) == file.levels

\* ---------------------------------------------------------------- state record
Cur == [CurrentState |-> CurrentState, bIsRestoringState |-> bIsRestoringState,
        SlotNameInProgress |-> SlotNameInProgress, TitleInProgress |-> TitleInProgress,
        ExtraInfoInProgress |-> ExtraInfoInProgress,
        OnScreenshotHandle |-> OnScreenshotHandle,
        ScreenshotBindings |-> ScreenshotBindings, ActiveState |-> ActiveState,
        Storage |-> Storage, Levels |-> Levels, Actors |-> Actors,
        Subscribed |-> Subscribed,
        LevelStreamingRestoreStates |-> LevelStreamingRestoreStates,
        PendingTasks |-> PendingTasks, bMapLoading |-> bMapLoading,
        bIsTearingDown |-> bIsTearingDown,
        events |-> <<>>]

Op(name, slot, flag, arg) ==
    [name |-> name, slot |-> slot, flag |-> flag, arg |-> arg]

\* Observer of the call sequence
\*   new-game(immediate); zone A loads; actor E of A destroyed; save(S1) succeeds;
\*   end-game; load(S1); zone A loads
\* The position advances on the next call of the sequence, is kept by the
\* PreLoadMap that precedes a map load, and falls back on any other call.
ScenarioSlot == "S1"
ScenarioActor == "E1"
ScenarioStart(op) == IF op.name = "NewGame" /\ ~op.flag THEN 1 ELSE 0
ScenarioStep(k, op) ==
    CASE k = 1 /\ op.name = "OnPostLoadMap" /\ op.flag -> 2
      [] k = 2 /\ op.name = "DestroyActor" /\ op.slot = PersistentLevel
               /\ op.arg = ScenarioActor -> 3
      [] k = 3 /\ op.name = "SaveGame" /\ op.slot = ScenarioSlot /\ ~op.flag
               /\ op.arg = "ok" -> 4
      [] k = 4 /\ op.name = "EndGame" -> 5
      [] k = 5 /\ op.name = "LoadGame" /\ op.slot = ScenarioSlot -> 6
      [] k = 6 /\ op.name = "OnPostLoadMap" /\ op.flag -> 7
      [] k \in {1, 6} /\ op.name = "OnPreLoadMap" -> k
      [] OTHER -> ScenarioStart(op)

\* the step made the broadcast / collaborator call `ev`
Emitted(s, ev) == \E i \in DOMAIN s.events : s.events[i].ev = ev

\* Observer of where the container's level data comes from: set by a load whose
\* read ended with an archive error and left level data in the container;
\* cleared when the container is reset, when global objects are restored from
\* it, and when a live level is stored into it.
UnrestoredGlobalsStep(b, s, op) ==
    CASE Emitted(s, "RestoreGlobalObject") -> FALSE
      [] op.name = "LoadGame" /\ Emitted(s, "ResetState") ->
             op.arg = "archiveerror" /\ \E z \in Zones : s.ActiveState[z].present
      [] op.name \in {"EndGame", "NewGame"} -> FALSE
      [] Emitted(s, "PostLevelStore") -> FALSE
      [] OTHER -> b

Become(s, op) ==
    /\ CurrentState' = s.CurrentState
    /\ bIsRestoringState' = s.bIsRestoringState
    /\ SlotNameInProgress' = s.SlotNameInProgress
    /\ TitleInProgress' = s.TitleInProgress
    /\ ExtraInfoInProgress' = s.ExtraInfoInProgress
    /\ OnScreenshotHandle' = s.OnScreenshotHandle
    /\ ScreenshotBindings' = s.ScreenshotBindings
    /\ ActiveState' = s.ActiveState
    /\ Storage' = s.Storage
    /\ Levels' = s.Levels
    /\ Actors' = s.Actors
    /\ Subscribed' = s.Subscribed
    /\ LevelStreamingRestoreStates' = s.LevelStreamingRestoreStates
    /\ PendingTasks' = s.PendingTasks
    /\ bMapLoading' = s.bMapLoading
    /\ bIsTearingDown' = s.bIsTearingDown
    /\ events' = s.events
    /\ lastOp' = op
    /\ scenario' = ScenarioStep(scenario, op)
    /\ bUnrestoredGlobals' = UnrestoredGlobalsStep(bUnrestoredGlobals, s, op)


\* a broadcast or collaborator call, as seen at the moment it is made
Emit(s, ev, arg, ok) ==
    [s EXCEPT !.events = Append(@, [ev |-> ev, arg |-> arg, ok |-> ok,
                                    st |-> s.CurrentState])]

\* the FString a `const FString&` parameter denotes when it is read
Deref(s, SlotName) ==
    IF SlotName = RefSlotNameInProgress THEN s.SlotNameInProgress ELSE SlotName

\* ---------------------------------------------------------------- environment
bEnableSPUD == TRUE
\* the game instance's world has an authority game mode (server / standalone)
HasAuthGameMode == TRUE
ServerCheck == bEnableSPUD /\ HasAuthGameMode

\* ---------------------------------------------------------------- tracking
NoBindings == [e \in Entities |-> 0]
\* OnDestroyed.AddUniqueDynamic: adds an entry unless one is there already
AddUniqueDynamic(n) == IF n > 0 THEN n ELSE 1
\* OnDestroyed.RemoveDynamic: removes one entry when there is one
RemoveDynamic(n) == IF n > 0 THEN n - 1 ELSE 0

\* AddDynamic in place of AddUniqueDynamic
SubscribeLevelObjectEvents_AddsAgain(s, z) ==
    [s EXCEPT !.Subscribed[z] = [e \in Entities |->
        IF e \in s.Actors[z] THEN s.Subscribed[z][e] + 1
        ELSE s.Subscribed[z][e]]]

SubscribeLevelObjectEvents(s, z) ==
    [s EXCEPT !.Subscribed[z] = [e \in Entities |->
        IF e \in s.Actors[z] THEN AddUniqueDynamic(s.Subscribed[z][e])
        ELSE s.Subscribed[z][e]]]

UnsubscribeLevelObjectEvents(s, z) ==
    [s EXCEPT !.Subscribed[z] = [e \in Entities |->
        IF e \in s.Actors[z] THEN RemoveDynamic(s.Subscribed[z][e])
        ELSE s.Subscribed[z][e]]]

RECURSIVE SubscribeAllFrom(_, _)
SubscribeAllFrom(s, i) ==
    IF i > Len(LevelOrder) THEN s
    ELSE SubscribeAllFrom(IF LevelOrder[i] \in s.Levels
                          THEN SubscribeLevelObjectEvents(s, LevelOrder[i]) ELSE s,
                          i + 1)

SubscribeAllLevelObjectEvents(s) == SubscribeAllFrom(s, 1)

RECURSIVE UnsubscribeAllFrom(_, _)
UnsubscribeAllFrom(s, i) ==
    IF i > Len(LevelOrder) THEN s
    ELSE UnsubscribeAllFrom(IF LevelOrder[i] \in s.Levels
                            THEN UnsubscribeLevelObjectEvents(s, LevelOrder[i]) ELSE s,
                            i + 1)

UnsubscribeAllLevelObjectEvents(s) == UnsubscribeAllFrom(s, 1)

CanRestoreLevel(s, z) == StateCanRestoreLevel(s.ActiveState, z)
CanRestoreWorld(s) == StateCanRestoreWorld(s.ActiveState)

OnActorDestroyed_AnyState(s, z, e, bIsBeingRemoved) ==
    IF ~bIsBeingRemoved
    THEN Emit([s EXCEPT !.ActiveState = StoreLevelActorDestroyed(s.ActiveState, z, e)],
              "StoreLevelActorDestroyed", e, TRUE)
    ELSE s

OnActorDestroyed(s, z, e, bIsBeingRemoved) ==
    IF s.CurrentState = "RunningIdle" /\ ~bIsBeingRemoved
    THEN Emit([s EXCEPT !.ActiveState = StoreLevelActorDestroyed(s.ActiveState, z, e)],
              "StoreLevelActorDestroyed", e, TRUE)
    ELSE s

\* Actor->OnDestroyed.Broadcast: one call per entry of the invocation list
RECURSIVE OnDestroyedBroadcast(_, _, _, _, _)
OnDestroyedBroadcast(s, z, e, bIsBeingRemoved, n) ==
    IF n = 0 THEN s
    ELSE OnDestroyedBroadcast(OnActorDestroyed(s, z, e, bIsBeingRemoved),
                              z, e, bIsBeingRemoved, n - 1)

MarkActorDestroyed(s, z, e, bIsBeingRemoved) ==
    IF ~ServerCheck THEN s
    ELSE OnActorDestroyed(s, z, e, bIsBeingRemoved)

\* ---------------------------------------------------------------- store / restore
StoreLevel(s, z, bRelease) ==
    LET s1 == Emit(s, "PreLevelStore", z, TRUE)
        s2 == [s1 EXCEPT !.ActiveState = StateStoreLevel(s1.ActiveState, z, bRelease)]
    IN Emit(s2, "PostLevelStore", z, TRUE)

RECURSIVE StoreWorldFrom(_, _, _)
StoreWorldFrom(s, i, bReleaseLevels) ==
    IF i > Len(LevelOrder) THEN s
    ELSE StoreWorldFrom(IF LevelOrder[i] \in s.Levels
                        THEN StoreLevel(s, LevelOrder[i], bReleaseLevels) ELSE s,
                        i + 1, bReleaseLevels)

StoreWorld(s, bReleaseLevels) == StoreWorldFrom(s, 1, bReleaseLevels)

\* USpudState::RestoreLevel: actors listed as destroyed in the record are destroyed
\* again in the freshly loaded level; the record is paged in
RestoreLevel(s, z) ==
    IF s.ActiveState[z].present
    THEN [s EXCEPT !.Actors[z] = @ \ s.ActiveState[z].destroyed,
                   !.Subscribed[z] = [e \in Entities |->
                       IF e \in s.ActiveState[z].destroyed THEN 0
                       ELSE s.Subscribed[z][e]]]
    ELSE s

\* USpudState::RestoreLoadedWorld: every level of the world that is loaded
RECURSIVE RestoreLoadedWorldFrom(_, _)
RestoreLoadedWorldFrom(s, i) ==
    IF i > Len(LevelOrder) THEN s
    ELSE RestoreLoadedWorldFrom(IF LevelOrder[i] \in s.Levels
                                THEN RestoreLevel(s, LevelOrder[i]) ELSE s, i + 1)

RestoreLoadedWorld(s) == RestoreLoadedWorldFrom(s, 1)

RECURSIVE ReleaseWorldFrom(_, _)
ReleaseWorldFrom(s, i) ==
    IF i > Len(LevelOrder) THEN s
    ELSE ReleaseWorldFrom(IF LevelOrder[i] \in s.Levels
                          THEN Emit([s EXCEPT !.ActiveState =
                                         ReleaseLevelData(s.ActiveState, LevelOrder[i])],
                                    "ReleaseLevelData", LevelOrder[i], TRUE)
                          ELSE s, i + 1)

\* ---------------------------------------------------------------- game lifetime
EndGame_KeepsSubscriptions(s) ==
    LET s1 == [s EXCEPT !.ActiveState = ResetState(s.ActiveState)]
    IN [s1 EXCEPT !.CurrentState = "Disabled", !.bIsRestoringState = FALSE]

EndGame(s) ==
    LET s1 == [s EXCEPT !.ActiveState = ResetState(s.ActiveState)]
        s2 == UnsubscribeAllLevelObjectEvents(s1)
    IN [s2 EXCEPT !.CurrentState = "Disabled", !.bIsRestoringState = FALSE]

NewGame(s, bAfterLevelLoad) ==
    IF ~ServerCheck THEN s
    ELSE LET s1 == EndGame(s)
         IN IF bAfterLevelLoad
            THEN [s1 EXCEPT !.CurrentState = "NewGameOnNextLevel"]
            ELSE SubscribeAllLevelObjectEvents([s1 EXCEPT !.CurrentState = "RunningIdle"])

ForceReset(s) ==
    [s EXCEPT !.CurrentState = "RunningIdle", !.bIsRestoringState = FALSE]

\* ---------------------------------------------------------------- save
SaveComplete(s, SlotName, bSuccess) ==
    LET s1 == [s EXCEPT !.CurrentState = "RunningIdle"]
        s2 == Emit(s1, "PostSaveGame", Deref(s1, SlotName), bSuccess)
    IN [s2 EXCEPT !.SlotNameInProgress = "", !.TitleInProgress = NoTitle,
                  !.ExtraInfoInProgress = FALSE]

WriteOutcomes == {"ok", "createfail", "archiveerror"}

\* the file left under the slot by the write step
WriteFile(s, slot, writeOutcome) ==
    CASE writeOutcome = "ok" -> [s EXCEPT !.Storage[slot] = SaveToArchive(s.ActiveState)]
      [] writeOutcome = "archiveerror" ->
             [s EXCEPT !.Storage[slot] = [status |-> "corrupt", levels |-> EmptyState]]
      [] OTHER -> s

FinishSaveGame_ReportsSuccess(s, SlotName, Title, ExtraInfo, bScreenshotData, writeOutcome) ==
    LET s1 == Emit(s, "StoreGlobalObject", "", TRUE)
        s2 == StoreWorld(s1, FALSE)
        s3 == Emit(s2, "SetTitle", Title, bScreenshotData)
        s4 == WriteFile(s3, Deref(s3, SlotName), writeOutcome)
        s5 == Emit(s4, "WriteSlot", Deref(s4, SlotName), writeOutcome = "ok")
    IN SaveComplete(s5, SlotName, TRUE)

FinishSaveGame(s, SlotName, Title, ExtraInfo, bScreenshotData, writeOutcome) ==
    LET s1 == Emit(s, "StoreGlobalObject", "", TRUE)
        s2 == StoreWorld(s1, FALSE)
        s3 == Emit(s2, "SetTitle", Title, bScreenshotData)
        s4 == WriteFile(s3, Deref(s3, SlotName), writeOutcome)
        s5 == Emit(s4, "WriteSlot", Deref(s4, SlotName), writeOutcome = "ok")
    IN SaveComplete(s5, SlotName, writeOutcome = "ok")

SaveGame(s, SlotName, Title, bTakeScreenshot, ExtraInfo, writeOutcome) ==
    IF ~ServerCheck THEN SaveComplete(s, SlotName, FALSE)
    ELSE IF SlotName = "" THEN SaveComplete(s, SlotName, FALSE)
    ELSE IF s.CurrentState # "RunningIdle" THEN SaveComplete(s, SlotName, FALSE)
    ELSE LET s1 == [s EXCEPT !.CurrentState = "SavingGame"]
             s2 == Emit(s1, "PreSaveGame", SlotName, TRUE)
         IN IF bTakeScreenshot
            THEN Emit([s2 EXCEPT !.SlotNameInProgress = SlotName,
                                 !.TitleInProgress = Title,
                                 !.ExtraInfoInProgress = ExtraInfo,
                                 !.OnScreenshotHandle = TRUE,
                                 !.ScreenshotBindings = @ + 1],
                      "RequestScreenshot", SlotName, TRUE)
            ELSE FinishSaveGame(s2, SlotName, Title, ExtraInfo, FALSE, writeOutcome)

OnScreenshotCaptured(s, writeOutcome) ==
    LET s1 == [s EXCEPT !.ScreenshotBindings =
                            IF s.OnScreenshotHandle THEN @ - 1 ELSE @,
                        !.OnScreenshotHandle = FALSE]
    IN FinishSaveGame(s1, RefSlotNameInProgress, s1.TitleInProgress,
                      s1.ExtraInfoInProgress, TRUE, writeOutcome)

\* ---------------------------------------------------------------- load
LoadComplete(s, SlotName, bSuccess) ==
    LET s1 == [s EXCEPT !.CurrentState = "RunningIdle", !.bIsRestoringState = FALSE,
                        !.SlotNameInProgress = ""]
    IN Emit(s1, "PostLoadGame", Deref(s1, SlotName), bSuccess)

\* what opening and reading the slot's file can yield
ReadOutcomes(file) ==
    CASE file.status = "ok" -> {"ok", "openfail", "archiveerror"}
      [] file.status = "corrupt" -> {"openfail", "archiveerror"}
      [] OTHER -> {"openfail"}

\* the archive-error check after LoadFromArchive is missing
LoadGame_IgnoresArchiveError(s, SlotName, bAutoTravelLevel, readOutcome, partial) ==
    IF ~ServerCheck THEN LoadComplete(s, SlotName, FALSE)
    ELSE IF s.CurrentState # "RunningIdle" THEN LoadComplete(s, SlotName, FALSE)
    ELSE LET s1 == [s EXCEPT !.CurrentState = "LoadingGame", !.bIsRestoringState = TRUE]
             s2 == Emit(s1, "PreLoadGame", SlotName, TRUE)
             s3 == Emit([s2 EXCEPT !.ActiveState = ResetState(s2.ActiveState)],
                        "ResetState", "", TRUE)
         IN IF readOutcome = "openfail" THEN LoadComplete(s3, SlotName, FALSE)
            ELSE LET s4 == [s3 EXCEPT !.ActiveState =
                                IF readOutcome = "archiveerror" THEN partial
                                ELSE LoadFromArchive(s3.Storage[SlotName])]
                     s5 == Emit(s4, "RestoreGlobalObject", "", TRUE)
                     s6 == [s5 EXCEPT !.SlotNameInProgress = SlotName]
                 IN IF bAutoTravelLevel
                    THEN Emit(s6, "OpenLevel", PersistentLevel, TRUE)
                    ELSE s6

\* `partial`: the container LoadFromArchive leaves behind when the archive errors
LoadGame(s, SlotName, bAutoTravelLevel, readOutcome, partial) ==
    IF ~ServerCheck THEN LoadComplete(s, SlotName, FALSE)
    ELSE IF s.CurrentState # "RunningIdle" THEN LoadComplete(s, SlotName, FALSE)
    ELSE LET s1 == [s EXCEPT !.CurrentState = "LoadingGame", !.bIsRestoringState = TRUE]
             s2 == Emit(s1, "PreLoadGame", SlotName, TRUE)
             s3 == Emit([s2 EXCEPT !.ActiveState = ResetState(s2.ActiveState)],
                        "ResetState", "", TRUE)
         IN CASE readOutcome = "openfail" -> LoadComplete(s3, SlotName, FALSE)
              [] readOutcome = "archiveerror" ->
                     LoadComplete([s3 EXCEPT !.ActiveState = partial], SlotName, FALSE)
              [] OTHER ->
                     LET s4 == [s3 EXCEPT !.ActiveState =
                                              LoadFromArchive(s3.Storage[SlotName])]
                         s5 == Emit(s4, "RestoreGlobalObject", "", TRUE)
                         s6 == [s5 EXCEPT !.SlotNameInProgress = SlotName]
                     IN IF bAutoTravelLevel
                        THEN Emit(s6, "OpenLevel", PersistentLevel, TRUE)
                        ELSE s6

\* ---------------------------------------------------------------- map travel
OnPreLoadMap_DropsOnRelease(s, bSaveLevelStateWhileTraveling) ==
    IF ~ServerCheck THEN s
    ELSE LET s1 == Emit(s, "PreTravelToNewMap", "", TRUE)
         IN IF s1.CurrentState = "RunningIdle"
            THEN LET s2 == UnsubscribeAllLevelObjectEvents(s1)
                 IN IF bSaveLevelStateWhileTraveling
                    THEN StoreWorld(s2, TRUE)
                    ELSE Emit([s2 EXCEPT !.ActiveState = ResetState(s2.ActiveState)],
                              "ReleaseLevelData", PersistentLevel, TRUE)
            ELSE s1

OnPreLoadMap(s, bSaveLevelStateWhileTraveling) ==
    IF ~ServerCheck THEN s
    ELSE LET s1 == Emit(s, "PreTravelToNewMap", "", TRUE)
         IN IF s1.CurrentState = "RunningIdle"
            THEN LET s2 == UnsubscribeAllLevelObjectEvents(s1)
                 IN IF bSaveLevelStateWhileTraveling
                    THEN StoreWorld(s2, TRUE)
                    ELSE ReleaseWorldFrom(s2, 1)
            ELSE s1

\* the world the engine hands to PostLoadMapWithWorld: the map's persistent level
\* with its authored actors, no streaming level shown yet, no delegate bound
FreshWorld(s) ==
    [s EXCEPT !.Levels = {PersistentLevel},
              !.Actors = [z \in Zones |-> IF z = PersistentLevel THEN Entities ELSE {}],
              !.Subscribed = [z \in Zones |-> NoBindings]]

OnPostLoadMap(s, bWorldValid) ==
    IF ~ServerCheck THEN s
    ELSE LET r ==
           CASE s.CurrentState = "NewGameOnNextLevel" ->
                  IF bWorldValid
                  THEN [SubscribeAllLevelObjectEvents(s) EXCEPT !.CurrentState = "RunningIdle"]
                  ELSE s
             [] s.CurrentState = "RunningIdle" -> SubscribeAllLevelObjectEvents(s)
             [] s.CurrentState = "LoadingGame" ->
                  IF ~bWorldValid THEN s
                  ELSE IF CanRestoreWorld(s)
                  THEN LET s1 == [s EXCEPT !.bIsRestoringState = TRUE]
                           s2 == Emit(s1, "PreLevelRestore", PersistentLevel, TRUE)
                           s3 == RestoreLoadedWorld(s2)
                           s4 == Emit(s3, "PostLevelRestore", PersistentLevel, TRUE)
                           s5 == [s4 EXCEPT !.bIsRestoringState = FALSE]
                           s6 == SubscribeAllLevelObjectEvents(s5)
                       IN LoadComplete(s6, RefSlotNameInProgress, TRUE)
                  ELSE LoadComplete(SubscribeAllLevelObjectEvents(s),
                                    RefSlotNameInProgress, FALSE)
             [] OTHER -> s
         IN Emit(r, "PostTravelToNewMap", "", TRUE)

\* ---------------------------------------------------------------- streaming
PostLoadStreamLevelGameThread_OnlyWhenIdle(s, z) ==
    LET s0 == Emit(s, "PostLoadStreamingLevel", z, TRUE)
    IN IF z \notin s0.Levels \/ s0.CurrentState # "RunningIdle" THEN s0
       ELSE LET s1 == [s0 EXCEPT !.bIsRestoringState = TRUE]
                s2 == Emit(s1, "PreLevelRestore", z, TRUE)
                s3 == RestoreLevel(s2, z)
                s4 == SubscribeLevelObjectEvents(s3, z)
                s5 == Emit(s4, "PostLevelRestore", z, TRUE)
            IN [s5 EXCEPT !.bIsRestoringState = FALSE]

PostLoadStreamLevelGameThread(s, z) ==
    LET s0 == Emit(s, "PostLoadStreamingLevel", z, TRUE)
    IN IF z \notin s0.Levels THEN s0
       ELSE LET s1 == [s0 EXCEPT !.bIsRestoringState = TRUE]
                s2 == Emit(s1, "PreLevelRestore", z, TRUE)
                s3 == RestoreLevel(s2, z)
                s4 == SubscribeLevelObjectEvents(s3, z)
                s5 == Emit(s4, "PostLevelRestore", z, TRUE)
            IN [s5 EXCEPT !.bIsRestoringState = FALSE]

\* the lambda HandleLevelLoaded queues on the game thread
RestoreTask(s, z) ==
    LET s1 == PostLoadStreamLevelGameThread(s, z)
        s2 == [s1 EXCEPT !.LevelStreamingRestoreStates[z] = FALSE]
    IN Emit(s2, "PostLoadStreamingLevel", z, TRUE)

HandleLevelLoaded(s, z) ==
    [s EXCEPT !.PendingTasks[z] = @ + 1]

HandleLevelUnloaded_AlwaysStores(s, z) ==
    StoreLevel(UnsubscribeLevelObjectEvents(s, z), z, TRUE)

HandleLevelUnloaded(s, z) ==
    LET s1 == UnsubscribeLevelObjectEvents(s, z)
    IN IF s1.CurrentState # "LoadingGame" /\ ~s1.bIsTearingDown
       THEN StoreLevel(s1, z, TRUE)
       ELSE s1

OnLevelBeginMakingInvisible(s, z) ==
    IF ~ServerCheck THEN s
    ELSE LET s1 == Emit(s, "PreUnloadStreamingLevel", z, TRUE)
             s2 == HandleLevelUnloaded(s1, z)
         IN Emit(s2, "PostUnloadStreamingLevel", z, TRUE)

OnLevelBeginMakingVisible_NoEarlyReturn(s, z) ==
    IF ~ServerCheck THEN s
    ELSE LET s1 == [s EXCEPT !.LevelStreamingRestoreStates[z] = TRUE]
             s2 == Emit(s1, "PreLoadStreamingLevel", z, TRUE)
         IN HandleLevelLoaded(s2, z)

OnLevelBeginMakingVisible(s, z) ==
    IF ~ServerCheck THEN s
    ELSE IF ~CanRestoreLevel(s, z) THEN s
    ELSE LET s1 == [s EXCEPT !.LevelStreamingRestoreStates[z] = TRUE]
             s2 == Emit(s1, "PreLoadStreamingLevel", z, TRUE)
         IN HandleLevelLoaded(s2, z)

IsStreamedLevelRestoring(s, z) == s.LevelStreamingRestoreStates[z]

\* ---------------------------------------------------------------- steps
\* the state the subsystem is constructed in, before any new-game
InitialState == "Disabled"

Init ==
    /\ CurrentState = InitialState
    /\ bIsRestoringState = FALSE
    /\ SlotNameInProgress = ""
    /\ TitleInProgress = NoTitle
    /\ ExtraInfoInProgress = FALSE
    /\ OnScreenshotHandle = FALSE
    /\ ScreenshotBindings = 0
    /\ ActiveState = EmptyState
    \* the save directory is empty, or holds slot S1 written in another map
    /\ Storage \in {[n \in SlotNames |-> NoFile],
                    [n \in SlotNames |-> IF n = "S1" THEN ForeignFile ELSE NoFile]}
    /\ Levels = {PersistentLevel}
    /\ Actors = [z \in Zones |-> IF z = PersistentLevel THEN Entities ELSE {}]
    /\ Subscribed = [z \in Zones |-> NoBindings]
    /\ LevelStreamingRestoreStates = [z \in Zones |-> FALSE]
    /\ PendingTasks = [z \in Zones |-> 0]
    /\ bMapLoading = FALSE
    /\ bIsTearingDown = FALSE
    /\ lastOp = Op("Initialize", "", FALSE, "")
    /\ scenario = 0
    /\ bUnrestoredGlobals = FALSE
    /\ events = <<>>

DoNewGame ==
    \E bAfterLevelLoad \in BOOLEAN :
        Become(NewGame(Cur, bAfterLevelLoad), Op("NewGame", "", bAfterLevelLoad, ""))

DoEndGame == Become(EndGame(Cur), Op("EndGame", "", FALSE, ""))

DoForceReset == Become(ForceReset(Cur), Op("ForceReset", "", FALSE, ""))

\* the storage holds one save file: the slot's file can be overwritten, or
\* created when no other slot has one; otherwise creating the writer fails
HasRoom(SlotName) ==
    \/ Storage[SlotName].status # "missing"
    \/ \A n \in SlotNames \ {SlotName} : Storage[n].status = "missing"

\* the call reaches the write step of FinishSaveGame
SaveWrites(SlotName, bTakeScreenshot) ==
    ServerCheck /\ SlotName # "" /\ CurrentState = "RunningIdle" /\ ~bTakeScreenshot

DoSaveGame ==
    \E SlotName \in SlotNames, Title \in Titles, bTakeScreenshot \in BOOLEAN,
       writeOutcome \in WriteOutcomes :
        /\ bTakeScreenshot => ScreenshotBindings < MaxBindings
        /\ ~HasRoom(SlotName) => writeOutcome = "createfail"
        \* inputs the call never reads are fixed to one value
        /\ ~SaveWrites(SlotName, bTakeScreenshot) => writeOutcome = "createfail"
        /\ bTakeScreenshot => (ServerCheck /\ SlotName # "" /\ CurrentState = "RunningIdle")
        /\ Become(SaveGame(Cur, SlotName, Title, bTakeScreenshot, TRUE, writeOutcome),
                  Op("SaveGame", SlotName, bTakeScreenshot, writeOutcome))

DoScreenshotCaptured ==
    \E writeOutcome \in WriteOutcomes :
        /\ ScreenshotBindings > 0
        /\ ~HasRoom(SlotNameInProgress) => writeOutcome = "createfail"
        \* the storage keeps files under the slot names a save is accepted for:
        \* creating the writer for a blank slot name fails
        /\ SlotNameInProgress = "" => writeOutcome = "createfail"
        /\ Become(OnScreenshotCaptured(Cur, writeOutcome),
                  Op("OnScreenshotCaptured", SlotNameInProgress, OnScreenshotHandle, writeOutcome))

\* the call reaches the read step of LoadGame
LoadReads == ServerCheck /\ CurrentState = "RunningIdle"

DoLoadGame ==
    \E SlotName \in SlotNames, bAutoTravelLevel \in BOOLEAN :
    \E readOutcome \in ReadOutcomes(Storage[SlotName]) :
    \E partial \in {EmptyState, LoadFromArchive(Storage[SlotName])} :
        /\ readOutcome # "archiveerror" => partial = EmptyState
        \* inputs the call never reads are fixed to one value
        /\ ~LoadReads => readOutcome = "openfail"
        /\ readOutcome # "ok" => ~bAutoTravelLevel
        /\ Become(LoadGame(Cur, SlotName, bAutoTravelLevel, readOutcome, partial),
                  Op("LoadGame", SlotName, bAutoTravelLevel, readOutcome))

DoPreLoadMap ==
    \E bSaveLevelStateWhileTraveling \in BOOLEAN :
        /\ ~bMapLoading
        \* OnPreLoadMap reads bSaveLevelStateWhileTraveling only in RunningIdle
        /\ bSaveLevelStateWhileTraveling => CurrentState = "RunningIdle"
        /\ Become([OnPreLoadMap(Cur, bSaveLevelStateWhileTraveling)
                       EXCEPT !.bMapLoading = TRUE],
                  Op("OnPreLoadMap", "", bSaveLevelStateWhileTraveling, ""))

DoPostLoadMap ==
    \E bWorldValid \in BOOLEAN :
        /\ bMapLoading
        /\ Become(OnPostLoadMap([(IF bWorldValid THEN FreshWorld(Cur) ELSE Cur)
                                     EXCEPT !.bMapLoading = FALSE], bWorldValid),
                  Op("OnPostLoadMap", SlotNameInProgress, bWorldValid, ""))

LevelVisible(maxTasks) ==
    \E z \in StreamingLevels :
        /\ z \notin Levels
        /\ PendingTasks[z] < maxTasks
        /\ Become(OnLevelBeginMakingVisible(
                      [Cur EXCEPT !.Levels = @ \cup {z}, !.Actors[z] = Entities,
                                  !.Subscribed[z] = NoBindings], z),
                  Op("OnLevelBeginMakingVisible", z, ActiveState[z].present, ""))

DoLevelVisible == LevelVisible(MaxPendingTasks)

DoLevelInvisible ==
    \E z \in StreamingLevels :
        /\ z \in Levels
        /\ Become([OnLevelBeginMakingInvisible(Cur, z)
                       EXCEPT !.Levels = @ \ {z}, !.Actors[z] = {},
                              !.Subscribed[z] = NoBindings],
                  Op("OnLevelBeginMakingInvisible", z, FALSE, ""))

DoRestoreTask ==
    \E z \in Zones :
        /\ PendingTasks[z] > 0
        /\ Become(RestoreTask([Cur EXCEPT !.PendingTasks[z] = @ - 1], z),
                  Op("RestoreTask", z, z \in Levels, ""))

\* the game destroys a live actor of a resident level, on its own or while the
\* engine removes the level (Level->bIsBeingRemoved); its OnDestroyed delegate
\* calls OnActorDestroyed when bound
DoDestroyActor ==
    \E z \in Zones, e \in Entities, bIsBeingRemoved \in BOOLEAN :
        /\ z \in Levels
        /\ e \in Actors[z]
        \* OnActorDestroyed reads bIsBeingRemoved only when bound and in RunningIdle
        /\ bIsBeingRemoved => (Subscribed[z][e] > 0 /\ CurrentState = "RunningIdle")
        /\ LET s1 == OnDestroyedBroadcast(Cur, z, e, bIsBeingRemoved, Subscribed[z][e])
           IN Become([s1 EXCEPT !.Actors[z] = @ \ {e}, !.Subscribed[z][e] = 0],
                     Op(IF bIsBeingRemoved THEN "DestroyActorWithLevel" ELSE "DestroyActor",
                        z, Subscribed[z][e] > 0, e))

\* the game removes a live actor of a resident level without the OnDestroyed
\* delegate reaching the subsystem, and reports it with MarkActorDestroyed
DoMarkActorDestroyed ==
    \E z \in Zones, e \in Entities, bIsBeingRemoved \in BOOLEAN :
        /\ z \in Levels
        /\ e \in Actors[z]
        /\ Subscribed[z][e] = 0
        \* OnActorDestroyed reads bIsBeingRemoved only in RunningIdle
        /\ bIsBeingRemoved => CurrentState = "RunningIdle"
        /\ Become([MarkActorDestroyed(Cur, z, e, bIsBeingRemoved)
                       EXCEPT !.Actors[z] = @ \ {e}, !.Subscribed[z][e] = 0],
                  Op("MarkActorDestroyed", z, bIsBeingRemoved, e))

Next ==
    \/ DoNewGame
    \/ DoEndGame
    \/ DoForceReset
    \/ DoSaveGame
    \/ DoScreenshotCaptured
    \/ DoLoadGame
    \/ DoPreLoadMap
    \/ DoPostLoadMap
    \/ DoLevelVisible
    \/ DoLevelInvisible
    \/ DoRestoreTask
    \/ DoDestroyActor
    \/ DoMarkActorDestroyed

Spec == Init /\ [][Next]_vars

\* Level streaming with restore tasks of one level overlapping: a level is shown,
\* hidden and shown again before the game thread runs the first queued task.
\* Save and load requests, which touch neither the task queue nor
\* LevelStreamingRestoreStates, are left out.
MaxOverlappingTasks == 2
DoLevelVisibleAgain == LevelVisible(MaxOverlappingTasks)

NextStreaming ==
    \/ DoNewGame
    \/ DoEndGame
    \/ DoForceReset
    \/ DoPreLoadMap
    \/ DoPostLoadMap
    \/ DoLevelVisibleAgain
    \/ DoLevelInvisible
    \/ DoRestoreTask
    \/ DoDestroyActor
    \/ DoMarkActorDestroyed

SpecStreaming == Init /\ [][NextStreaming]_vars

\* the actors of a level whose destruction reaches OnActorDestroyed
Bound(z) == {e \in Entities : Subscribed[z][e] > 0}

TypeOK ==
    /\ CurrentState \in SystemStates
    /\ SlotNameInProgress \in SlotNames
    /\ ScreenshotBindings \in 0..MaxBindings
    /\ Levels \subseteq Zones
    /\ \A z \in Zones : Bound(z) \subseteq Actors[z]

\* ================================================================ properties
EventsNamedIn(evs, ev) == {i \in DOMAIN evs : evs[i].ev = ev}
EventsNamed(ev) == EventsNamedIn(events, ev)
HasEvent(ev) == EventsNamed(ev) # {}
\* the step reported the request as failed through its completion event
ReportedFailureIn(evs, ev, slot) ==
    \E i \in EventsNamedIn(evs, ev) : evs[i].arg = slot /\ ~evs[i].ok
ReportedFailure(ev, slot) == ReportedFailureIn(events, ev, slot)
\* slot names under which SaveGame accepts a save
AcceptedSaveSlots == SlotNames \ {""}
InFlightStates == {"SavingGame", "LoadingGame"}
IsRequest(op) == op.name \in {"SaveGame", "LoadGame"}
AllSubscribed == \A z \in Levels : Bound(z) = Actors[z]
NoneSubscribed == \A z \in Levels : Bound(z) = {}

\* C1: a save or load request issued while a save or load is in flight
\* (CurrentState SavingGame or LoadingGame) is reported as failed through its
\* completion event and leaves CurrentState as it was.
C1_RejectedRequestKeepsState ==
    [][(IsRequest(lastOp') /\ CurrentState \in InFlightStates
          /\ (lastOp'.name = "SaveGame" => lastOp'.slot # ""))
        => /\ CurrentState' = CurrentState
           /\ \/ (lastOp'.name = "SaveGame" /\ ReportedFailureIn(events', "PostSaveGame", lastOp'.slot))
              \/ (lastOp'.name = "LoadGame" /\ ReportedFailureIn(events', "PostLoadGame", lastOp'.slot))
      ]_vars

\* C2: further save/load requests leave an in-flight operation's outcome as it
\* would have been: a load awaiting the zone-loaded notification keeps waiting
\* for it with its slot in progress and, when the notification arrives,
\* completes with a post-load event for that slot; a save awaiting the
\* thumbnail callback writes the slot it was accepted for and emits post-save
\* for that slot when the callback fires.
C2_InFlightOutcomeUnaffected ==
    [][/\ (IsRequest(lastOp') /\ CurrentState = "LoadingGame" /\ SlotNameInProgress # "")
           => (CurrentState' = "LoadingGame" /\ SlotNameInProgress' = SlotNameInProgress)
       /\ (lastOp'.name = "OnPostLoadMap" /\ lastOp'.flag
             /\ CurrentState = "LoadingGame" /\ SlotNameInProgress # "")
           => (\E i \in EventsNamedIn(events', "PostLoadGame") :
                   events'[i].arg = SlotNameInProgress)
       /\ (lastOp'.name = "OnScreenshotCaptured" /\ OnScreenshotHandle)
           => (\E S \in AcceptedSaveSlots :
                   /\ \E i \in EventsNamedIn(events', "WriteSlot") : events'[i].arg = S
                   /\ \E i \in EventsNamedIn(events', "PostSaveGame") : events'[i].arg = S)
      ]_vars

\* C3: single-flight: no load is in its LoadingGame phase while a save still
\* awaits its thumbnail callback, and no step of a save pipeline (pre-save,
\* global store, level store, write) runs while CurrentState is LoadingGame.
SavePipelineEvents == {"PreSaveGame", "StoreGlobalObject", "WriteSlot"}
C3_SingleFlight ==
    /\ ~(ScreenshotBindings > 0 /\ CurrentState = "LoadingGame")
    /\ \A i \in DOMAIN events :
           events[i].ev \in SavePipelineEvents => events[i].st # "LoadingGame"

\* C4: after new-game(immediate), zone A loads, actor E of zone A destroyed,
\* save(S1) succeeds, end-game, load(S1), zone A loads again: E is absent from
\* zone A and every other authored actor of zone A is present.
C4_DestroyedActorStaysDestroyed ==
    scenario = 7 =>
        /\ ScenarioActor \notin Actors[PersistentLevel]
        /\ (Entities \ {ScenarioActor}) \subseteq Actors[PersistentLevel]

\* C5: after end-game, from whatever state it was called in, CurrentState is
\* Disabled, the container is empty and no actor of a resident level is
\* subscribed to the destroyed-actor tracker.
C5_EndGameResets ==
    lastOp.name = "EndGame" =>
        /\ CurrentState = "Disabled"
        /\ ActiveState = EmptyState
        /\ NoneSubscribed

C5_Witness ==
    /\ lastOp.name = "EndGame"
    /\ ScreenshotBindings > 0
    /\ Levels = Zones
    /\ \E n \in SlotNames : Storage[n].status = "ok"

\* C6: new-game(immediate) ends in RunningIdle with an empty container and all
\* resident levels subscribed; new-game(deferred) ends in NewGameOnNextLevel
\* with none subscribed; from NewGameOnNextLevel nothing but the post-map-load
\* notification (or another new-game, end-game or force-reset command) changes
\* CurrentState, and that notification, for a valid world, moves it to
\* RunningIdle with all resident levels subscribed.
LifetimeCommands == {"NewGame", "EndGame", "ForceReset"}
C6_NewGame ==
    [][/\ (lastOp'.name = "NewGame" /\ ~lastOp'.flag)
           => (CurrentState' = "RunningIdle" /\ ActiveState' = EmptyState /\ AllSubscribed')
       /\ (lastOp'.name = "NewGame" /\ lastOp'.flag)
           => (CurrentState' = "NewGameOnNextLevel" /\ NoneSubscribed')
       /\ (CurrentState = "NewGameOnNextLevel"
             /\ lastOp'.name \notin LifetimeCommands \cup {"OnPostLoadMap"})
           => CurrentState' = "NewGameOnNextLevel"
       /\ (CurrentState = "NewGameOnNextLevel" /\ lastOp'.name = "OnPostLoadMap"
             /\ lastOp'.flag)
           => (CurrentState' = "RunningIdle" /\ AllSubscribed')
      ]_vars

\* C7: a save request made in RunningIdle with a non-empty slot is accepted:
\* pre-save is emitted and observed in SavingGame, and the state stays
\* SavingGame while the thumbnail is awaited; a step that runs the write step
\* of the pipeline (at once without thumbnail, or from the thumbnail callback)
\* ends in RunningIdle whether the write succeeded or failed and emits exactly
\* one post-save event, observed in RunningIdle, whose success flag is the
\* outcome of the write.
C7_SaveCompletes ==
    [][/\ (lastOp'.name = "SaveGame" /\ CurrentState = "RunningIdle" /\ lastOp'.slot # "")
           => \E i \in EventsNamedIn(events', "PreSaveGame") :
                  events'[i].arg = lastOp'.slot /\ events'[i].st = "SavingGame"
       /\ (EventsNamedIn(events', "PreSaveGame") # {}
             /\ EventsNamedIn(events', "WriteSlot") = {})
           => (CurrentState' = "SavingGame" /\ EventsNamedIn(events', "PostSaveGame") = {})
       /\ EventsNamedIn(events', "WriteSlot") # {}
           => /\ CurrentState' = "RunningIdle"
              /\ Cardinality(EventsNamedIn(events', "WriteSlot")) = 1
              /\ Cardinality(EventsNamedIn(events', "PostSaveGame")) = 1
              /\ \A i \in EventsNamedIn(events', "WriteSlot"),
                    j \in EventsNamedIn(events', "PostSaveGame") :
                     /\ events'[j].ok = events'[i].ok
                     /\ events'[j].st = "RunningIdle"
                     /\ events'[i].ok =>
                            Storage'[events'[i].arg] = SaveToArchive(ActiveState')
      ]_vars

C7_Witness ==
    /\ lastOp.name = "OnScreenshotCaptured"
    /\ \E j \in EventsNamed("PostSaveGame") : ~events[j].ok /\ events[j].arg = "S1"
    /\ CurrentState = "RunningIdle"

\* C8: a save request with an empty slot name, in any state, is reported as a
\* failure and changes neither CurrentState nor the in-flight metadata nor the
\* container.
C8_BlankSaveNoSideEffects ==
    [][(lastOp'.name = "SaveGame" /\ lastOp'.slot = "")
        => /\ ReportedFailureIn(events', "PostSaveGame", "")
           /\ CurrentState' = CurrentState
           /\ SlotNameInProgress' = SlotNameInProgress
           /\ TitleInProgress' = TitleInProgress
           /\ ExtraInfoInProgress' = ExtraInfoInProgress
           /\ ActiveState' = ActiveState
      ]_vars

\* C9: a load request with an empty slot name is reported as a failure without
\* entering LoadingGame, without emitting pre-load and without resetting the
\* container.
C9_BlankLoadRejected ==
    (lastOp.name = "LoadGame" /\ lastOp.slot = "")
        => /\ ReportedFailure("PostLoadGame", "")
           /\ ~HasEvent("PreLoadGame")
           /\ ~HasEvent("ResetState")
           /\ \A i \in DOMAIN events : events[i].st # "LoadingGame"

\* C10: an accepted load (pre-load emitted) whose slot cannot be opened or
\* whose archive reports an error restores no global object, records no slot
\* in progress, requests no map travel, ends in RunningIdle and emits
\* post-load with success=false for the requested slot.
C10_FailedReadAborts ==
    (lastOp.name = "LoadGame" /\ HasEvent("PreLoadGame") /\ lastOp.arg # "ok")
        => /\ ~HasEvent("RestoreGlobalObject")
           /\ SlotNameInProgress = ""
           /\ ~HasEvent("OpenLevel")
           /\ CurrentState = "RunningIdle"
           /\ Cardinality(EventsNamed("PostLoadGame")) = 1
           /\ ReportedFailure("PostLoadGame", lastOp.slot)

C10_Witness ==
    /\ lastOp.name = "LoadGame"
    /\ lastOp.slot = "S1"
    /\ lastOp.arg = "archiveerror"
    /\ HasEvent("PreLoadGame")
    /\ ReportedFailure("PostLoadGame", "S1")

\* C11: after the first phase of a load has succeeded (CurrentState is
\* LoadingGame) the state stays LoadingGame with the same slot in progress
\* until the post-map-load notification arrives (new-game, end-game and
\* force-reset aside); that notification, for a valid world, restores the
\* loaded world iff the container has data for it and ends in RunningIdle.
C11_LoadCompletesOnMapLoad ==
    [][/\ (CurrentState = "LoadingGame"
             /\ lastOp'.name \notin LifetimeCommands \cup {"OnPostLoadMap"})
           => (CurrentState' = "LoadingGame" /\ SlotNameInProgress' = SlotNameInProgress)
       /\ (CurrentState = "LoadingGame" /\ lastOp'.name = "OnPostLoadMap" /\ lastOp'.flag)
           => /\ CurrentState' = "RunningIdle"
              /\ (EventsNamedIn(events', "PreLevelRestore") # {})
                     <=> StateCanRestoreWorld(ActiveState)
      ]_vars

\* C12: no level is restored from level data that was read from a save slot
\* unless the global objects have been restored from that same container
\* first, also when the read ended with an archive error.
C12_GlobalsRestoredBeforeLevels ==
    bUnrestoredGlobals =>
        \A i \in EventsNamed("PreLevelRestore") : ~ActiveState[events[i].arg].present

C14_NoDataNoRestore ==
    [][\A z \in StreamingLevels :
         (lastOp'.name = "OnLevelBeginMakingVisible" /\ lastOp'.slot = z
            /\ ~ActiveState[z].present) =>
            /\ ~CanRestoreLevel(Cur, z)
            /\ events' = <<>>
            /\ PendingTasks' = PendingTasks
            /\ LevelStreamingRestoreStates' = LevelStreamingRestoreStates
            /\ CurrentState' = CurrentState
            /\ bIsRestoringState' = bIsRestoringState
            /\ ActiveState' = ActiveState
            /\ Actors'[z] = Entities
      ]_vars

C14_Witness ==
    /\ lastOp.name = "OnLevelBeginMakingVisible"
    /\ ~lastOp.flag
    /\ CurrentState = "LoadingGame"
    /\ ActiveState[PersistentLevel].present
    /\ ~ActiveState[lastOp.slot].present

\* C15: a level with stored data that becomes visible gets a restore task
\* queued whatever CurrentState is, and when the task runs with the level
\* still loaded the level is restored from its record (the actors its record
\* lists as destroyed are gone) and all its actors are subscribed, whatever
\* CurrentState is; neither step changes CurrentState.
C15_StreamedLevelRestoredInAnyState ==
    [][\A z \in Zones :
         /\ (lastOp'.name = "OnLevelBeginMakingVisible" /\ lastOp'.slot = z
               /\ ActiveState[z].present) =>
               /\ CurrentState' = CurrentState
               /\ PendingTasks'[z] = PendingTasks[z] + 1
               /\ LevelStreamingRestoreStates'[z]
         /\ (lastOp'.name = "RestoreTask" /\ lastOp'.slot = z /\ lastOp'.flag) =>
               /\ CurrentState' = CurrentState
               /\ \E i \in EventsNamedIn(events', "PreLevelRestore") : events'[i].arg = z
               /\ \E i \in EventsNamedIn(events', "PostLevelRestore") : events'[i].arg = z
               /\ Actors'[z] = Actors[z] \ ActiveState[z].destroyed
               /\ Bound(z)' = Actors'[z]
               /\ ~LevelStreamingRestoreStates'[z]
      ]_vars

C15_Witness ==
    /\ lastOp.name = "RestoreTask"
    /\ lastOp.flag
    /\ CurrentState = "LoadingGame"
    /\ ScenarioActor \in ActiveState[lastOp.slot].destroyed
    /\ ScenarioActor \notin Actors[lastOp.slot]

\* C16: a destroyed-actor notification (OnDestroyed delegate or
\* MarkActorDestroyed) adds the actor to its level's destroyed list iff
\* CurrentState is RunningIdle and the level is not being removed; otherwise
\* the container is left as it was.
DestroyNotifications == {"DestroyActor", "DestroyActorWithLevel", "MarkActorDestroyed"}
\* the step delivered a destroyed-actor notification to the subsystem
Notified(op) ==
    /\ op.name \in DestroyNotifications
    /\ op.name # "MarkActorDestroyed" => op.flag
\* Level->bIsBeingRemoved at the time of the notification
LevelBeingRemoved(op) ==
    \/ op.name = "DestroyActorWithLevel"
    \/ op.name = "MarkActorDestroyed" /\ op.flag
C16_DestroyedRecordedOnlyWhenIdle ==
    [][Notified(lastOp') =>
         IF CurrentState = "RunningIdle" /\ ~LevelBeingRemoved(lastOp')
         THEN /\ ActiveState'[lastOp'.slot].destroyed =
                     ActiveState[lastOp'.slot].destroyed \cup {lastOp'.arg}
              /\ \A z \in Zones \ {lastOp'.slot} : ActiveState'[z] = ActiveState[z]
         ELSE ActiveState' = ActiveState
      ]_vars

C16_Witness ==
    /\ lastOp.name = "MarkActorDestroyed"
    /\ ~lastOp.flag
    /\ lastOp.slot \in StreamingLevels
    /\ lastOp.arg \in ActiveState[lastOp.slot].destroyed

\* C17: whenever CurrentState is RunningIdle and the subsystem is not tearing
\* down (and no map load or queued restore task is under way), every authored
\* persistent actor of every resident level is subscribed.
C17_IdleMeansSubscribed ==
    (CurrentState = "RunningIdle" /\ ~bIsTearingDown /\ ~bMapLoading) =>
        \A z \in Levels : PendingTasks[z] = 0 => Bound(z) = Actors[z]

\* C18: except for end-game, new-game and an accepted load, which start a new
\* lineage, no step removes an actor from any level's destroyed list.
StartsLineage(op, evs) ==
    \/ op.name \in {"EndGame", "NewGame"}
    \/ op.name = "LoadGame" /\ EventsNamedIn(evs, "PreLoadGame") # {}
C19_SaveWaitsForThumbnail ==
    [][(CurrentState = "SavingGame" /\ OnScreenshotHandle
          /\ lastOp'.name \notin LifetimeCommands \cup {"OnScreenshotCaptured"})
        => /\ CurrentState' = "SavingGame"
           /\ SlotNameInProgress' = SlotNameInProgress
           /\ EventsNamedIn(events', "StoreGlobalObject") = {}
           /\ EventsNamedIn(events', "WriteSlot") = {}
      ]_vars

\* C20: every post-save and post-load event carries the slot name of its
\* request: the argument of the SaveGame / LoadGame call that emits it at
\* once, and the slot in progress when the thumbnail callback or the
\* post-map-load notification emits it later.
CompletionEventOf(op) ==
    CASE op.name \in {"SaveGame", "OnScreenshotCaptured"} -> "PostSaveGame"
      [] op.name \in {"LoadGame", "OnPostLoadMap"} -> "PostLoadGame"
      [] OTHER -> "none"
C20_CompletionCarriesSlot ==
    \A i \in EventsNamed(CompletionEventOf(lastOp)) : events[i].arg = lastOp.slot

\* C21: when the post-map-load notification of a load (CurrentState
\* LoadingGame, valid world) finds no data for the loaded world in the
\* container, the restore is skipped, the load's post-load event carries
\* success=true and CurrentState becomes RunningIdle.
C21_SkippedRestoreIsNotFailure ==
    [][(lastOp'.name = "OnPostLoadMap" /\ lastOp'.flag
          /\ CurrentState = "LoadingGame" /\ ~StateCanRestoreWorld(ActiveState))
        => /\ EventsNamedIn(events', "PreLevelRestore") = {}
           /\ EventsNamedIn(events', "PostLoadGame") # {}
           /\ \A i \in EventsNamedIn(events', "PostLoadGame") : events'[i].ok
           /\ CurrentState' = "RunningIdle"
      ]_vars

\* C22: every map-about-to-change notification leaves no actor of a resident
\* level subscribed and, when level state is kept across travel, stores every
\* resident level into its record before it returns; otherwise it releases
\* the data of every resident level.
C22_MapChangeStoresOrReleases ==
    [][lastOp'.name = "OnPreLoadMap" =>
         /\ \A z \in Levels : Bound(z)' = {}
         /\ \A z \in Levels :
              IF lastOp'.flag
              THEN /\ \E i \in EventsNamedIn(events', "PostLevelStore") : events'[i].arg = z
                   /\ ActiveState'[z].present
              ELSE \E i \in EventsNamedIn(events', "ReleaseLevelData") : events'[i].arg = z
      ]_vars

\* C23: subscription is idempotent and symmetric: no actor ever has more than
\* one entry calling OnActorDestroyed, so that one destruction records at most
\* once; subscribing a level gives each of its actors exactly one entry and
\* subscribing it again changes nothing; unsubscribing a level none of whose
\* actors is subscribed changes nothing; and after any mix of subscribe and
\* unsubscribe calls one unsubscribe leaves the level's actors with no entry.
C23_SubscriptionIdempotent ==
    /\ Cardinality(EventsNamed("StoreLevelActorDestroyed")) <= 1
    /\ \A z \in Zones :
         LET once == SubscribeLevelObjectEvents(Cur, z)
             twice == SubscribeLevelObjectEvents(once, z)
             back == UnsubscribeLevelObjectEvents(Cur, z)
             again == SubscribeLevelObjectEvents(back, z)
         IN /\ \A e \in Entities : Subscribed[z][e] <= 1
            /\ \A e \in Actors[z] : once.Subscribed[z][e] = 1
            /\ twice = once
            /\ Bound(z) = {} => back = Cur
            /\ UnsubscribeLevelObjectEvents(back, z) = back
            /\ \A x \in {Cur, once, twice, back, again} :
                   UnsubscribeLevelObjectEvents(x, z).Subscribed[z] = NoBindings

C23_Witness ==
    /\ lastOp.name = "RestoreTask"
    /\ lastOp.flag
    /\ CurrentState = "RunningIdle"
    /\ Actors[lastOp.slot] # {}
    /\ Bound(lastOp.slot) = Actors[lastOp.slot]
    /\ ~ActiveState[lastOp.slot].present

\* C24: in-flight metadata is set only while a save or load is in flight: in
\* Disabled, NewGameOnNextLevel and RunningIdle the slot name in progress is
\* empty and the title and custom info in progress are cleared.
NotInFlightStates == {"Disabled", "NewGameOnNextLevel", "RunningIdle"}
C24_MetadataOnlyInFlight ==
    CurrentState \in NotInFlightStates =>
        /\ SlotNameInProgress = ""
        /\ TitleInProgress = NoTitle
        /\ ~ExtraInfoInProgress

\* C25: no level's live state is stored into the container while
\* CurrentState is LoadingGame, by any unload, invisibility, map-transition
\* or save-pipeline step.
LevelStoreEvents == {"PreLevelStore", "PostLevelStore"}
C25_NoStoreWhileLoading ==
    \A i \in DOMAIN events :
        events[i].ev \in LevelStoreEvents => events[i].st # "LoadingGame"

\* C26: once CurrentState is Disabled, only a new-game or force-reset command
\* changes it: no save or load request, thumbnail callback, level event or
\* map-load notification moves it out of Disabled.
C26_DisabledUntilNewGame ==
    [][(CurrentState = "Disabled" /\ lastOp'.name \notin {"NewGame", "ForceReset"})
        => CurrentState' = "Disabled"
      ]_vars

\* C27: for every level, IsStreamedLevelRestoring is true exactly while a
\* restore task queued by a begin-making-visible notification of that level
\* has not run yet: true whenever a task of the level is pending, also when
\* several notifications of the level overlap, and false once they have run.
C27_RestoringWhileTaskPending ==
    \A z \in Zones : IsStreamedLevelRestoring(Cur, z) <=> PendingTasks[z] > 0

\* C28: between a begin-making-visible notification for a level with stored
\* data and the run of the restore task it queued, no step stores that level:
\* while a restore task of a level is pending, no store of the level is made.
C28_NoStoreBeforeRestore ==
    [][\A z \in Zones :
         PendingTasks[z] > 0 =>
             \A i \in EventsNamedIn(events', "PostLevelStore") : events'[i].arg # z
      ]_vars

====
